---- MODULE Spec2Model ----
(***************************************************************************)
(* Simulated-annealing solvers of the repository: the 8-Queens collection  *)
(* loop (src/src/queens.rs) and the Sudoku driver (src/src/sudoku.rs), as  *)
(* dispatched by main (src/src/main.rs).                                   *)
(*                                                                         *)
(* Conventions.                                                            *)
(*  - The random source is modelled by nondeterministic choice (\E) over   *)
(*    the values a draw can return.                                        *)
(*  - f64 temperatures are fixed-point integers in units of 1/10000        *)
(*    (2.4 is 24000); a product is rescaled by integer division.           *)
(*  - The Queens board is N x N with N a bound of the model; the source    *)
(*    fixes the size to 8.  The Sudoku board keeps its 9 x 9 size, the     *)
(*    bound being on where the generator may punch holes.                  *)
(*  - cooled, attempts_run, success_steps, successes and seen_energy are   *)
(*    history variables: they only record what the program did.  Every     *)
(*    other variable is a variable of the program.                         *)
(***************************************************************************)
EXTENDS Integers, Sequences, FiniteSets, TLC

\* ------------------------------------------------------------------ bounds
N == 4
MaxSteps == 3
MaxRestarts == 2
MaxTarget == 2
MaxHoles == 3
EnergyHoles == 4
AttemptSteps == 2
HoleRows == 2
HoleCols == 3

\* --------------------------------------------------------- program constants
TempFloor == 2500
CoolingMin == 8000
CoolingMax == 9999
TempScale == 100 * 100

StartTemps == {24000}
CoolingRates == {9995, 5000}

VARIABLES
    cmd,            \* main.rs: the PuzzleCommand that was parsed
    pc,             \* position of the program
    config,         \* QueensConfig / SamplerConfig
    target,         \* collect_solutions: target
    max_restarts,   \* collect_solutions: max_restarts
    unique,         \* collect_solutions: unique (HashSet of states)
    runs,           \* collect_solutions: runs (Vec<QueenRun>)
    restarts,       \* collect_solutions: restarts
    total_steps,    \* collect_solutions: total_steps
    state,          \* solve_single: state
    energy,         \* solve_single / solve: energy
    temperature,    \* solve_single / solve: temperature
    step,           \* solve_single: loop variable of `for step in 0..max_steps`
    result,         \* the value returned by solve_single / solve
    holes,          \* with_random_holes: holes
    puzzle,         \* SudokuPuzzle (its givens)
    board,          \* solve: state.board
    best_state,     \* solve: best_state.board
    best_energy,    \* solve: best_energy
    cooling,        \* solve: cooling
    steps,          \* solve: steps
    iter,           \* solve: iterations of `for _ in 0..max_steps` begun
    seen_energy,    \* history: values the tracked energy of solve has taken
    cooled,         \* history: schedule advances made in the current attempt
    attempts_run,   \* history: number of solve_single calls made
    success_steps,  \* history: sum of run.steps over the Some results returned
    successes       \* history: number of Some results returned by solve_single

vars == <<cmd, pc, config, target, max_restarts, unique, runs, restarts,
          total_steps, state, energy, temperature, step, result, holes, puzzle,
          board, best_state, best_energy, cooling, steps, iter, seen_energy,
          cooled, attempts_run, success_steps, successes>>

historyVars == <<attempts_run, success_steps, successes>>

collectVars == <<target, max_restarts, unique, runs, restarts, total_steps>>

sudokuVars == <<holes, puzzle, board, best_state, best_energy, cooling, steps,
                iter, seen_energy>>

Rows == 0 .. (N - 1)

None == [tag |-> "None"]

Some(v) == [tag |-> "Some", value |-> v]

Abs(x) == IF x < 0 THEN -x ELSE x

\* ------------------------------------------------------------ queens.rs
\* Mutant of ConflictsInner: the shared-column test is left out.
RECURSIVE ConflictsInnerDiagonalOnly(_, _, _)
ConflictsInnerDiagonalOnly(st, i, j) ==
    IF j > N - 1 THEN 0
    ELSE (IF Abs(st[i] - st[j]) = Abs(i - j) THEN 1 ELSE 0)
         + ConflictsInnerDiagonalOnly(st, i, j + 1)

\* The inner loop of queen_conflict_count: j from jFrom to N-1 for a fixed i.
RECURSIVE ConflictsInner(_, _, _)
ConflictsInner(st, i, j) ==
    IF j > N - 1 THEN 0
    ELSE (IF st[i] = st[j] \/ Abs(st[i] - st[j]) = Abs(i - j) THEN 1 ELSE 0)
         + ConflictsInner(st, i, j + 1)

\* Mutant of ConflictsOuter: the inner loop starts at j = i.
RECURSIVE ConflictsOuterFromSelf(_, _)
ConflictsOuterFromSelf(st, i) ==
    IF i > N - 1 THEN 0
    ELSE ConflictsInner(st, i, i) + ConflictsOuterFromSelf(st, i + 1)

\* The outer loop of queen_conflict_count: i from 0 to N-1.
RECURSIVE ConflictsOuter(_, _)
ConflictsOuter(st, i) ==
    IF i > N - 1 THEN 0
    ELSE ConflictsInner(st, i, i + 1) + ConflictsOuter(st, i + 1)

queen_conflict_count(st) == ConflictsOuter(st, 0)

\* Mutant of MaskInner: a conflicting pair marks its first row only.
RECURSIVE MaskInnerMarksFirstOnly(_, _, _, _)
MaskInnerMarksFirstOnly(st, i, j, mask) ==
    IF j > N - 1 THEN mask
    ELSE MaskInnerMarksFirstOnly(st, i, j + 1,
             IF st[i] = st[j] \/ Abs(st[i] - st[j]) = Abs(i - j)
             THEN [mask EXCEPT ![i] = TRUE]
             ELSE mask)

\* The inner loop of conflict_mask: j from the given row to N-1 for a fixed i.
RECURSIVE MaskInner(_, _, _, _)
MaskInner(st, i, j, mask) ==
    IF j > N - 1 THEN mask
    ELSE MaskInner(st, i, j + 1,
             IF st[i] = st[j] \/ Abs(st[i] - st[j]) = Abs(i - j)
             THEN [mask EXCEPT ![i] = TRUE, ![j] = TRUE]
             ELSE mask)

\* The outer loop of conflict_mask: i from 0 to N-1.
RECURSIVE MaskOuter(_, _, _)
MaskOuter(st, i, mask) ==
    IF i > N - 1 THEN mask
    ELSE MaskOuter(st, i + 1, MaskInner(st, i, i + 1, mask))

conflict_mask(st) == MaskOuter(st, 0, [r \in Rows |-> FALSE])

\* Mutant of random_queen_state: each row draws its column independently.
random_queen_state_independent == [Rows -> Rows]

\* columns.shuffle(rng): every arrangement of 0..N-1 is a possible outcome.
random_queen_state ==
    {f \in [Rows -> Rows] : \A i, j \in Rows : i # j => f[i] # f[j]}

\* temperature = (temperature * rate).max(0.25)
CoolStep(temp, rate) ==
    IF (temp * rate) \div TempScale > TempFloor
    THEN (temp * rate) \div TempScale
    ELSE TempFloor

\* Mutant of AcceptOutcomes: only a strictly lower energy accepts outright.
AcceptOutcomesStrict(delta, temp) ==
    IF delta < 0 THEN {TRUE}
    ELSE IF temp > 0 THEN {TRUE, FALSE}
    ELSE IF temp = 0 THEN {FALSE}
    ELSE {TRUE}

\* The values `accept` can take for a candidate with energy change delta.
\* delta <= 0 accepts; otherwise random_bool(exp(-delta / temperature).min(1.0)):
\* a positive temperature gives a probability in [0, 1), a zero temperature
\* gives exp(-inf) = 0, a negative one gives min(exp(+x), 1.0) = 1.
AcceptOutcomes(delta, temp) ==
    IF delta <= 0 THEN {TRUE}
    ELSE IF temp > 0 THEN {TRUE, FALSE}
    ELSE IF temp = 0 THEN {FALSE}
    ELSE {TRUE}

\* ------------------------------------------------------------ sudoku.rs
Idx9 == 0 .. 8

Digits9 == 1 .. 9

NoBoard == <<>>

\* A given cell is Some(digit), a hole is None.
IsNone(cell) == cell.tag = "None"

\* Mutant of pattern: the shift by the band of the row is left out.
patternNoBandShift(row, col) == (3 * (row % 3) + col) % 9

pattern(row, col) == (3 * (row % 3) + row \div 3 + col) % 9

\* The outcomes of the five kinds of shuffle in generate_full_solution that
\* the model draws: the band order and the three offset orders for the rows,
\* the same for the columns, and the order of the digits.
ShuffleDraws ==
    { [row_bands |-> <<0, 1, 2>>,
       row_offsets |-> << <<0, 1, 2>>, <<0, 1, 2>>, <<0, 1, 2>> >>,
       col_bands |-> <<0, 1, 2>>,
       col_offsets |-> << <<0, 1, 2>>, <<0, 1, 2>>, <<0, 1, 2>> >>,
       nums |-> <<1, 2, 3, 4, 5, 6, 7, 8, 9>>],
      [row_bands |-> <<2, 0, 1>>,
       row_offsets |-> << <<1, 0, 2>>, <<2, 1, 0>>, <<0, 2, 1>> >>,
       col_bands |-> <<1, 2, 0>>,
       col_offsets |-> << <<0, 2, 1>>, <<1, 0, 2>>, <<2, 0, 1>> >>,
       nums |-> <<4, 9, 1, 7, 3, 8, 2, 6, 5>>] }

\* rows.push(band * 3 + offset) for each band in order and each of its offsets.
BandOrder(bands, offsets) ==
    [i \in Idx9 |-> bands[(i \div 3) + 1] * 3 + offsets[(i \div 3) + 1][(i % 3) + 1]]

generate_full_solution(d) ==
    LET rows == BandOrder(d.row_bands, d.row_offsets)
        cols == BandOrder(d.col_bands, d.col_offsets)
    IN [i \in Idx9 |-> [j \in Idx9 |-> d.nums[pattern(rows[i], cols[j]) + 1]]]

\* The cells coords.shuffle may put among the first `removed`: the model draws
\* them from HoleRows rows and HoleCols columns starting at column 2.
HoleRegion ==
    {rc \in Idx9 \X Idx9 : rc[1] < HoleRows /\ rc[2] >= 2 /\ rc[2] < 2 + HoleCols}

Min(a, b) == IF a < b THEN a ELSE b

\* with_random_holes: the givens for a solution and the set of cells removed.
with_random_holes(solution, removedCells) ==
    [row \in Idx9 |-> [col \in Idx9 |->
        IF <<row, col>> \in removedCells THEN None ELSE Some(solution[row][col])]]

\* count_givens: the number of cells of the givens that are Some.
count_givens(givens) ==
    Cardinality({rc \in Idx9 \X Idx9 : ~IsNone(givens[rc[1]][rc[2]])})

\* row_free_positions: per row, the columns without a given, in column order.
RECURSIVE FreeFrom(_, _)
FreeFrom(givenRow, col) ==
    IF col > 8 THEN <<>>
    ELSE (IF IsNone(givenRow[col]) THEN <<col>> ELSE <<>>) \o FreeFrom(givenRow, col + 1)

row_free_positions(givens) == [row \in Idx9 |-> FreeFrom(givens[row], 0)]

\* random_initial_state, one row: the digits left after removing each given
\* are shuffled and dealt to the free cells in column order.
RowFills(givenRow) ==
    LET free == {col \in Idx9 : IsNone(givenRow[col])}
        digits == Digits9 \ {givenRow[col].value : col \in Idx9 \ free}
        deals == {f \in [free -> digits] : \A a, b \in free : a # b => f[a] # f[b]}
    IN {[col \in Idx9 |-> IF col \in free THEN f[col] ELSE givenRow[col].value] : f \in deals}

RECURSIVE FillsFrom(_, _)
FillsFrom(givens, row) ==
    IF row > 8 THEN {<<>>}
    ELSE {<<x>> \o rest : x \in RowFills(givens[row]), rest \in FillsFrom(givens, row + 1)}

random_initial_state(givens) ==
    {[row \in Idx9 |-> filled[row + 1]] : filled \in FillsFrom(givens, 0)}

\* counts[value] for one group of nine cells, then the sum over counts.iter().skip(1)
\* of count - 1 where count > 1.
\* Mutant of GroupConflicts: a repeated digit adds its whole count.
RECURSIVE GroupConflictsWholeCount(_, _, _)
GroupConflictsWholeCount(b, cells, value) ==
    IF value > 9 THEN 0
    ELSE LET count == Cardinality({rc \in cells : b[rc[1]][rc[2]] = value})
         IN (IF count > 1 THEN count ELSE 0)
            + GroupConflictsWholeCount(b, cells, value + 1)

RECURSIVE GroupConflicts(_, _, _)
GroupConflicts(b, cells, value) ==
    IF value > 9 THEN 0
    ELSE LET count == Cardinality({rc \in cells : b[rc[1]][rc[2]] = value})
         IN (IF count > 1 THEN count - 1 ELSE 0) + GroupConflicts(b, cells, value + 1)

RECURSIVE ColumnsFrom(_, _)
ColumnsFrom(b, col) ==
    IF col > 8 THEN 0
    ELSE GroupConflicts(b, {<<row, col>> : row \in Idx9}, 1) + ColumnsFrom(b, col + 1)

column_conflicts(b) == ColumnsFrom(b, 0)

RECURSIVE BoxesFrom(_, _)
BoxesFrom(b, k) ==
    IF k > 8 THEN 0
    ELSE LET block_row == k \div 3
             block_col == k % 3
             cells == ((block_row * 3) .. (block_row * 3 + 2))
                        \X ((block_col * 3) .. (block_col * 3 + 2))
         IN GroupConflicts(b, cells, 1) + BoxesFrom(b, k + 1)

box_conflicts(b) == BoxesFrom(b, 0)

SudokuEnergy(b) == column_conflicts(b) + box_conflicts(b)

\* Mutant of SwapCells: only the first cell is written.
SwapCellsOverwrite(b, row, col_a, col_b) ==
    [b EXCEPT ![row] = [@ EXCEPT ![col_a] = b[row][col_b]]]

\* state.board[row].swap(col_a, col_b)
SwapCells(b, row, col_a, col_b) ==
    [b EXCEPT ![row] = [@ EXCEPT ![col_a] = b[row][col_b], ![col_b] = b[row][col_a]]]

\* config.cooling_rate.clamp(0.8, 0.9999)
Clamp(x, lo, hi) == IF x < lo THEN lo ELSE IF x > hi THEN hi ELSE x

\* The QueensConfig values drawn: any step budget up to MaxSteps with the
\* default start temperature 2.4 and cooling rate 0.995 of main.rs.
QueensConfigs ==
    [max_steps : 0 .. MaxSteps, start_temp : {24000}, cooling_rate : {9950}]

\* The SamplerConfig values drawn.
SamplerConfigs ==
    [max_steps : 0 .. MaxSteps, start_temp : StartTemps, cooling_rate : CoolingRates]

\* The locals of solve_single while no call of it is active.
SingleLocalsDropped ==
    /\ state = [r \in Rows |-> 0]
    /\ energy = 0
    /\ temperature = 0
    /\ step = 0
    /\ result = None
    /\ cooled = 0

\* The state when main has parsed the command line and is about to call
\* collect_solutions (Queens) or with_random_holes (Sudoku).
InitWith(queensConfigs, samplerConfigs, targets, restartBudgets, holeCounts) ==
    /\ cmd \in {"queens", "sudoku"}
    /\ pc = (IF cmd = "queens" THEN "collect" ELSE "generate")
    /\ config \in (IF cmd = "queens" THEN queensConfigs ELSE samplerConfigs)
    /\ target \in (IF cmd = "queens" THEN targets ELSE {0})
    /\ max_restarts \in (IF cmd = "queens" THEN restartBudgets ELSE {0})
    /\ holes \in (IF cmd = "sudoku" THEN holeCounts ELSE {0})
    /\ puzzle = NoBoard
    /\ board = NoBoard
    /\ best_state = NoBoard
    /\ best_energy = 0
    /\ cooling = 0
    /\ steps = 0
    /\ iter = 0
    /\ seen_energy = {}
    /\ unique = {}
    /\ runs = <<>>
    /\ restarts = 0
    /\ total_steps = 0
    /\ SingleLocalsDropped
    /\ attempts_run = 0
    /\ success_steps = 0
    /\ successes = 0

Init ==
    InitWith(QueensConfigs, SamplerConfigs, 0 .. MaxTarget, 0 .. MaxRestarts, 0 .. MaxHoles)

\* The (start_temp, cooling_rate) pairs drawn for runs of one attempt: the
\* Queens defaults 2.4 and 0.995, a start below the floor with a rate below
\* the clamp (0.2, 0.5), and a rate above one (2.4, 1.2).
AttemptSchedules == {<<24000, 9950>>, <<2000, 5000>>, <<24000, 12000>>}

AttemptConfigs ==
    {[max_steps |-> m, start_temp |-> sched[1], cooling_rate |-> sched[2]] :
        m \in 0 .. AttemptSteps, sched \in AttemptSchedules}

\* As Init, for one attempt of a driver (collect_solutions with target = 1 and
\* max_restarts = 1, or solve) and a wider choice of temperatures and rates.
InitAttempt == InitWith(AttemptConfigs, AttemptConfigs, {1}, {1}, {MaxHoles})

\* As Init, for the boards SudokuState::energy is given when EnergyHoles cells
\* are removed: one attempt with the default start_temp and one cooling_rate.
EnergyConfigs ==
    [max_steps : {MaxSteps}, start_temp : StartTemps, cooling_rate : {9995}]

InitEnergy == InitWith(QueensConfigs, EnergyConfigs, {1}, {1}, {EnergyHoles})

\* Mutant of CollectLoop: the restart bound is tested with <=.
CollectLoopOffByOne ==
    /\ pc = "collect"
    /\ Cardinality(unique) < target /\ restarts <= max_restarts
    /\ restarts' = restarts + 1
    /\ pc' = "single_init"
    /\ UNCHANGED <<cmd, sudokuVars, config, target, max_restarts, unique, runs, total_steps,
                   state, energy, temperature, step, result, cooled,
                   historyVars>>

\* collect_solutions, the loop head and `restarts += 1` before the call.
CollectLoop ==
    /\ pc = "collect"
    /\ Cardinality(unique) < target /\ restarts < max_restarts
    /\ restarts' = restarts + 1
    /\ pc' = "single_init"
    /\ UNCHANGED <<cmd, sudokuVars, config, target, max_restarts, unique, runs, total_steps,
                   state, energy, temperature, step, result, cooled,
                   historyVars>>

\* collect_solutions, the loop condition fails: build the CollectionResult.
CollectReturn ==
    /\ pc = "collect"
    /\ ~(Cardinality(unique) < target /\ restarts < max_restarts)
    /\ pc' = "done"
    /\ UNCHANGED <<cmd, sudokuVars, config, collectVars, state, energy, temperature, step,
                   result, cooled, historyVars>>

\* solve_single, the three `let mut` lines before the loop.
SolveSingleInit ==
    /\ pc = "single_init"
    /\ \E s \in random_queen_state :
         /\ state' = s
         /\ energy' = queen_conflict_count(s)
    /\ temperature' = config.start_temp
    /\ step' = 0
    /\ cooled' = 0
    /\ attempts_run' = attempts_run + 1
    /\ pc' = "single"
    /\ UNCHANGED <<cmd, sudokuVars, config, collectVars, result, success_steps,
                   successes>>

\* solve_single, an iteration that finds energy == 0 and returns Some.
SolveSingleSuccess ==
    /\ pc = "single"
    /\ step < config.max_steps
    /\ energy = 0
    /\ result' = Some([state |-> state, steps |-> step])
    /\ success_steps' = success_steps + step
    /\ successes' = successes + 1
    /\ pc' = "returned"
    /\ UNCHANGED <<cmd, sudokuVars, config, collectVars, state, energy, temperature, step,
                   cooled, attempts_run>>

\* Mutant of SolveSingleMove: the loop runs while step <= max_steps.
SolveSingleMoveOffByOne ==
    /\ pc = "single"
    /\ step <= config.max_steps
    /\ energy # 0
    /\ \E row \in Rows, candidate \in Rows :
         /\ candidate # state[row]
         /\ LET current == state[row]
                moved == [state EXCEPT ![row] = candidate]
                new_energy == queen_conflict_count(moved)
                delta == new_energy - energy
            IN \E accept \in AcceptOutcomes(delta, temperature) :
                 IF accept
                 THEN /\ state' = moved
                      /\ energy' = new_energy
                 ELSE /\ state' = [moved EXCEPT ![row] = current]
                      /\ energy' = energy
    /\ temperature' = CoolStep(temperature, config.cooling_rate)
    /\ cooled' = cooled + 1
    /\ step' = step + 1
    /\ UNCHANGED <<cmd, sudokuVars, pc, config, collectVars, result, historyVars>>

\* Mutant of QueensIteration: a rejected candidate stays on the board.
QueensIterationNoUndo(row, candidate, accept) ==
    /\ pc = "single"
    /\ step < config.max_steps
    /\ energy # 0
    /\ candidate # state[row]
    /\ LET moved == [state EXCEPT ![row] = candidate]
           new_energy == queen_conflict_count(moved)
           delta == new_energy - energy
       IN /\ accept \in AcceptOutcomes(delta, temperature)
          /\ state' = moved
          /\ energy' = (IF accept THEN new_energy ELSE energy)
    /\ temperature' = CoolStep(temperature, config.cooling_rate)
    /\ cooled' = cooled + 1
    /\ step' = step + 1
    /\ UNCHANGED <<cmd, sudokuVars, pc, config, collectVars, result, historyVars>>

\* Mutant of QueensIteration: the candidate is not redrawn when it equals the
\* row's column.
QueensIterationNullMove(row, candidate, accept) ==
    /\ pc = "single"
    /\ step < config.max_steps
    /\ energy # 0
    /\ temperature' = CoolStep(temperature, config.cooling_rate)
    /\ cooled' = cooled + 1
    /\ step' = step + 1
    /\ LET current == state[row]
           moved == [state EXCEPT ![row] = candidate]
           new_energy == queen_conflict_count(moved)
           delta == new_energy - energy
       IN /\ IF accept
             THEN /\ state' = moved
                  /\ energy' = new_energy
             ELSE /\ state' = [moved EXCEPT ![row] = current]
                  /\ energy' = energy
          /\ accept \in AcceptOutcomes(delta, temperature)
    /\ UNCHANGED <<cmd, sudokuVars, pc, config, collectVars, result, historyVars>>

\* solve_single, lines 59-79: the iteration that draws `row`, draws `candidate`
\* until it differs from the row's column, and whose `accept` has the given
\* value.
QueensIteration(row, candidate, accept) ==
    /\ pc = "single"
    /\ step < config.max_steps
    /\ energy # 0
    /\ candidate # state[row]
    /\ temperature' = CoolStep(temperature, config.cooling_rate)
    /\ cooled' = cooled + 1
    /\ step' = step + 1
    /\ LET current == state[row]
           moved == [state EXCEPT ![row] = candidate]
           new_energy == queen_conflict_count(moved)
           delta == new_energy - energy
       IN /\ IF accept
             THEN /\ state' = moved
                  /\ energy' = new_energy
             ELSE /\ state' = [moved EXCEPT ![row] = current]
                  /\ energy' = energy
          /\ accept \in AcceptOutcomes(delta, temperature)
    /\ UNCHANGED <<cmd, sudokuVars, pc, config, collectVars, result, historyVars>>

\* solve_single, an iteration that proposes a move, accepts or rejects it and
\* advances the schedule.
SolveSingleMove ==
    \E row \in Rows, candidate \in Rows, accept \in BOOLEAN :
        QueensIteration(row, candidate, accept)

\* solve_single, the range 0..max_steps is used up: return None.
SolveSingleExhausted ==
    /\ pc = "single"
    /\ step >= config.max_steps
    /\ result' = None
    /\ pc' = "returned"
    /\ UNCHANGED <<cmd, sudokuVars, config, collectVars, state, energy, temperature, step,
                   cooled, historyVars>>

\* Mutant of CollectHandle: a rediscovered state is pushed again.
CollectHandlePushAlways ==
    /\ pc = "returned"
    /\ IF result.tag = "Some"
       THEN /\ total_steps' = total_steps + result.value.steps
            /\ IF result.value.state \notin unique
               THEN /\ unique' = unique \cup {result.value.state}
                    /\ runs' = Append(runs, result.value)
               ELSE /\ unique' = unique
                    /\ runs' = Append(runs, result.value)
       ELSE UNCHANGED <<total_steps, unique, runs>>
    /\ pc' = "collect"
    /\ state' = [r \in Rows |-> 0]
    /\ energy' = 0
    /\ temperature' = 0
    /\ step' = 0
    /\ result' = None
    /\ cooled' = 0
    /\ UNCHANGED <<cmd, sudokuVars, config, target, max_restarts, restarts,
                   historyVars>>

\* Mutant of CollectHandle: the steps of a rediscovery are not added.
CollectHandleCountNewOnly ==
    /\ pc = "returned"
    /\ IF result.tag = "Some"
       THEN IF result.value.state \notin unique
            THEN /\ total_steps' = total_steps + result.value.steps
                 /\ unique' = unique \cup {result.value.state}
                 /\ runs' = Append(runs, result.value)
            ELSE UNCHANGED <<total_steps, unique, runs>>
       ELSE UNCHANGED <<total_steps, unique, runs>>
    /\ pc' = "collect"
    /\ state' = [r \in Rows |-> 0]
    /\ energy' = 0
    /\ temperature' = 0
    /\ step' = 0
    /\ result' = None
    /\ cooled' = 0
    /\ UNCHANGED <<cmd, sudokuVars, config, target, max_restarts, restarts,
                   historyVars>>

\* collect_solutions, the body of `if let Some(run) = solve_single(..)`; the
\* locals of the finished solve_single call and its result no longer exist.
CollectHandle ==
    /\ pc = "returned"
    /\ IF result.tag = "Some"
       THEN /\ total_steps' = total_steps + result.value.steps
            /\ IF result.value.state \notin unique
               THEN /\ unique' = unique \cup {result.value.state}
                    /\ runs' = Append(runs, result.value)
               ELSE UNCHANGED <<unique, runs>>
       ELSE UNCHANGED <<total_steps, unique, runs>>
    /\ pc' = "collect"
    /\ state' = [r \in Rows |-> 0]
    /\ energy' = 0
    /\ temperature' = 0
    /\ step' = 0
    /\ result' = None
    /\ cooled' = 0
    /\ UNCHANGED <<cmd, sudokuVars, config, target, max_restarts, restarts,
                   historyVars>>

\* with_random_holes: a full solution with min(holes, 81) cells removed.
WithRandomHoles ==
    /\ pc = "generate"
    /\ \E d \in ShuffleDraws, removedCells \in SUBSET HoleRegion :
         /\ Cardinality(removedCells) = Min(holes, 81)
         /\ puzzle' = with_random_holes(generate_full_solution(d), removedCells)
    /\ pc' = "solve_init"
    /\ UNCHANGED <<cmd, config, collectVars, state, energy, temperature, step,
                   result, holes, board, best_state, best_energy, cooling, steps,
                   iter, seen_energy, cooled, historyVars>>

\* Mutant of SolveInit: the caller's cooling_rate is used as supplied.
SolveInitUnclamped ==
    /\ pc = "solve_init"
    /\ \E b \in random_initial_state(puzzle) :
         LET e == SudokuEnergy(b)
         IN /\ board' = b
            /\ energy' = e
            /\ best_state' = b
            /\ best_energy' = e
            /\ seen_energy' = {e}
    /\ temperature' = config.start_temp
    /\ cooling' = config.cooling_rate
    /\ steps' = 0
    /\ iter' = 0
    /\ cooled' = 0
    /\ pc' = "solve"
    /\ UNCHANGED <<cmd, config, collectVars, state, step, result, holes, puzzle,
                   historyVars>>

\* solve, the `let` lines before the loop.
SolveInit ==
    /\ pc = "solve_init"
    /\ \E b \in random_initial_state(puzzle) :
         LET e == SudokuEnergy(b)
         IN /\ board' = b
            /\ energy' = e
            /\ best_state' = b
            /\ best_energy' = e
            /\ seen_energy' = {e}
    /\ temperature' = config.start_temp
    /\ cooling' = Clamp(config.cooling_rate, CoolingMin, CoolingMax)
    /\ steps' = 0
    /\ iter' = 0
    /\ cooled' = 0
    /\ pc' = "solve"
    /\ UNCHANGED <<cmd, config, collectVars, state, step, result, holes, puzzle,
                   historyVars>>

\* solve, an iteration whose random row has fewer than two free cells: continue.
SolveSkip ==
    /\ pc = "solve"
    /\ iter < config.max_steps
    /\ energy # 0
    /\ LET row_free == row_free_positions(puzzle)
       IN \E row \in Idx9 :
            LET positions == row_free[row]
            IN Len(positions) < 2
    /\ steps' = steps + 1
    /\ iter' = iter + 1
    /\ UNCHANGED <<cmd, pc, config, collectVars, state, energy, temperature, step,
                   result, holes, puzzle, board, best_state, best_energy, cooling,
                   seen_energy, cooled, historyVars>>

\* Mutant of SolveSwap: every accepted swap overwrites the best snapshot.
SolveSwapBestFollows ==
    /\ pc = "solve"
    /\ iter < config.max_steps
    /\ energy # 0
    /\ \E row \in Idx9 :
         LET positions == row_free_positions(puzzle)[row]
         IN /\ Len(positions) >= 2
            /\ \E idx_a, idx_b \in 0 .. (Len(positions) - 1) :
                 /\ idx_b # idx_a
                 /\ LET col_a == positions[idx_a + 1]
                        col_b == positions[idx_b + 1]
                        swapped == SwapCells(board, row, col_a, col_b)
                        new_energy == SudokuEnergy(swapped)
                        delta == new_energy - energy
                    IN \E accept \in AcceptOutcomes(delta, temperature) :
                         IF accept
                         THEN /\ board' = swapped
                              /\ energy' = new_energy
                              /\ seen_energy' = seen_energy \cup {new_energy}
                              /\ IF TRUE
                                 THEN /\ best_energy' = new_energy
                                      /\ best_state' = swapped
                                 ELSE UNCHANGED <<best_energy, best_state>>
                         ELSE /\ board' = SwapCells(swapped, row, col_a, col_b)
                              /\ UNCHANGED <<energy, seen_energy, best_energy,
                                             best_state>>
    /\ temperature' = CoolStep(temperature, cooling)
    /\ cooled' = cooled + 1
    /\ steps' = steps + 1
    /\ iter' = iter + 1
    /\ UNCHANGED <<cmd, pc, config, collectVars, state, step, result, holes,
                   puzzle, cooling, historyVars>>

\* Mutant of SudokuIteration: a rejected swap is not swapped back.
SudokuIterationNoUndo(row, idx_a, idx_b, accept) ==
    /\ pc = "solve"
    /\ iter < config.max_steps
    /\ energy # 0
    /\ temperature' = CoolStep(temperature, cooling)
    /\ cooled' = cooled + 1
    /\ steps' = steps + 1
    /\ iter' = iter + 1
    /\ LET positions == row_free_positions(puzzle)[row]
       IN /\ Len(positions) >= 2
          /\ idx_a < Len(positions)
          /\ idx_b < Len(positions)
          /\ idx_b # idx_a
          /\ LET col_a == positions[idx_a + 1]
                 col_b == positions[idx_b + 1]
                 swapped == SwapCells(board, row, col_a, col_b)
                 new_energy == SudokuEnergy(swapped)
                 delta == new_energy - energy
             IN /\ IF accept
                   THEN /\ board' = swapped
                        /\ energy' = new_energy
                        /\ seen_energy' = seen_energy \cup {new_energy}
                        /\ IF new_energy < best_energy
                           THEN /\ best_energy' = new_energy
                                /\ best_state' = swapped
                           ELSE UNCHANGED <<best_energy, best_state>>
                   ELSE /\ board' = swapped
                        /\ UNCHANGED <<energy, seen_energy, best_energy,
                                       best_state>>
                /\ accept \in AcceptOutcomes(delta, temperature)
    /\ UNCHANGED <<cmd, pc, config, collectVars, state, step, result, holes,
                   puzzle, cooling, historyVars>>

\* Mutant of SudokuIteration: an improvement records best_energy without
\* cloning the state into best_state.
SudokuIterationBestStateStale(row, idx_a, idx_b, accept) ==
    /\ pc = "solve"
    /\ iter < config.max_steps
    /\ energy # 0
    /\ temperature' = CoolStep(temperature, cooling)
    /\ cooled' = cooled + 1
    /\ steps' = steps + 1
    /\ iter' = iter + 1
    /\ LET positions == row_free_positions(puzzle)[row]
       IN /\ Len(positions) >= 2
          /\ idx_a < Len(positions)
          /\ idx_b < Len(positions)
          /\ idx_b # idx_a
          /\ LET col_a == positions[idx_a + 1]
                 col_b == positions[idx_b + 1]
                 swapped == SwapCells(board, row, col_a, col_b)
                 new_energy == SudokuEnergy(swapped)
                 delta == new_energy - energy
             IN /\ IF accept
                   THEN /\ board' = swapped
                        /\ energy' = new_energy
                        /\ seen_energy' = seen_energy \cup {new_energy}
                        /\ IF new_energy < best_energy
                           THEN /\ best_energy' = new_energy
                                /\ best_state' = best_state
                           ELSE UNCHANGED <<best_energy, best_state>>
                   ELSE /\ board' = SwapCells(swapped, row, col_a, col_b)
                        /\ UNCHANGED <<energy, seen_energy, best_energy,
                                       best_state>>
                /\ accept \in AcceptOutcomes(delta, temperature)
    /\ UNCHANGED <<cmd, pc, config, collectVars, state, step, result, holes,
                   puzzle, cooling, historyVars>>

\* solve, lines 102-132: the iteration that draws `row` with at least two
\* free cells, draws `idx_a`, draws `idx_b` until it differs, and whose
\* `accept` has the given value.
SudokuIteration(row, idx_a, idx_b, accept) ==
    /\ pc = "solve"
    /\ iter < config.max_steps
    /\ energy # 0
    /\ temperature' = CoolStep(temperature, cooling)
    /\ cooled' = cooled + 1
    /\ steps' = steps + 1
    /\ iter' = iter + 1
    /\ LET positions == row_free_positions(puzzle)[row]
       IN /\ Len(positions) >= 2
          /\ idx_a < Len(positions)
          /\ idx_b < Len(positions)
          /\ idx_b # idx_a
          /\ LET col_a == positions[idx_a + 1]
                 col_b == positions[idx_b + 1]
                 swapped == SwapCells(board, row, col_a, col_b)
                 new_energy == SudokuEnergy(swapped)
                 delta == new_energy - energy
             IN /\ IF accept
                   THEN /\ board' = swapped
                        /\ energy' = new_energy
                        /\ seen_energy' = seen_energy \cup {new_energy}
                        /\ IF new_energy < best_energy
                           THEN /\ best_energy' = new_energy
                                /\ best_state' = swapped
                           ELSE UNCHANGED <<best_energy, best_state>>
                   ELSE /\ board' = SwapCells(swapped, row, col_a, col_b)
                        /\ UNCHANGED <<energy, seen_energy, best_energy,
                                       best_state>>
                /\ accept \in AcceptOutcomes(delta, temperature)
    /\ UNCHANGED <<cmd, pc, config, collectVars, state, step, result, holes,
                   puzzle, cooling, historyVars>>

\* solve, an iteration that swaps two free cells of a row, accepts or rejects
\* the swap and advances the schedule.
SolveSwap ==
    /\ pc = "solve"
    /\ \E row \in Idx9 :
         \E idx_a, idx_b \in 0 .. (Len(row_free_positions(puzzle)[row]) - 1) :
            \E accept \in BOOLEAN : SudokuIteration(row, idx_a, idx_b, accept)

\* solve, the loop ends (energy == 0 breaks it, or 0..max_steps is used up) and
\* the pair (best_state, SolveStats) is returned.
SolveReturn ==
    /\ pc = "solve"
    /\ (energy = 0 \/ iter >= config.max_steps)
    /\ result' = [state |-> best_state,
                  stats |-> [steps |-> steps, best_energy |-> best_energy,
                             temperature |-> temperature]]
    /\ pc' = "done"
    /\ UNCHANGED <<cmd, config, collectVars, state, energy, temperature, step,
                   sudokuVars, cooled, historyVars>>

Next ==
    \/ CollectLoop
    \/ CollectReturn
    \/ SolveSingleInit
    \/ SolveSingleSuccess
    \/ SolveSingleMove
    \/ SolveSingleExhausted
    \/ CollectHandle
    \/ WithRandomHoles
    \/ SolveInit
    \/ SolveSkip
    \/ SolveSwap
    \/ SolveReturn

Spec == Init /\ [][Next]_vars

\* The runs of one attempt of either driver.
SpecAttempt == InitAttempt /\ [][Next]_vars

\* The runs on the boards of InitEnergy.
SpecEnergy == InitEnergy /\ [][Next]_vars


\* ---------------------------------------------------------------- claims
InSolve == cmd = "sudoku" /\ pc \in {"solve", "done"}

InSingle == cmd = "queens" /\ pc \in {"single", "returned"}

RowsArePermutations(b) == \A row \in Idx9 : {b[row][col] : col \in Idx9} = Digits9

GivensKept(b) ==
    \A row, col \in Idx9 : ~IsNone(puzzle[row][col]) => b[row][col] = puzzle[row][col].value

GivensDistinctInRows ==
    \A row, a, b \in Idx9 :
        (a # b /\ ~IsNone(puzzle[row][a]) /\ ~IsNone(puzzle[row][b]))
            => puzzle[row][a].value # puzzle[row][b].value

\* C1: in sudoku::solve, for a puzzle whose givens are distinct within each
\* row, from the initial state on, after every iteration and in the returned
\* state, every row of the board (and of the best board that is returned) is a
\* permutation of 1..9 and every given cell holds its given digit.
C1_RowsPermutedGivensKept ==
    (InSolve /\ GivensDistinctInRows) =>
        /\ RowsArePermutations(board) /\ GivensKept(board)
        /\ RowsArePermutations(best_state) /\ GivensKept(best_state)
        /\ pc = "done" => RowsArePermutations(result.state) /\ GivensKept(result.state)

\* A returned run that skipped a row (steps > cooled), swapped at least twice
\* and accepted a swap that made the board worse than the best one.
C1_Witness ==
    /\ InSolve /\ pc = "done" /\ GivensDistinctInRows
    /\ holes >= 2 /\ cooled >= 2 /\ steps > cooled
    /\ board # best_state

\* C2: a Queens attempt whose state has energy 0 at any point, the state left
\* by the last permitted move included, returns Some with that state and the
\* steps consumed; None is returned only if the state never had energy 0.
C2_ZeroEnergyReturnsSome ==
    (cmd = "queens" /\ pc = "returned" /\ queen_conflict_count(state) = 0)
        => result = Some([state |-> state, steps |-> step])

\* C3: in sudoku::solve every consumed step advances the cooling schedule
\* exactly once, a wasted step on a row with fewer than two free cells
\* included: after k consumed steps the schedule has been advanced k times.
C3_EveryStepCools == InSolve => cooled = steps

\* C4: the runs list of collect_solutions never holds two entries with the
\* same column sequence, and at every point of the loop its length is the size
\* of the set of distinct states found.
C4_RunsDistinct ==
    cmd = "queens" =>
        /\ \A i, j \in 1 .. Len(runs) : i # j => runs[i].state # runs[j].state
        /\ Len(runs) = Cardinality(unique)
        /\ {runs[i].state : i \in 1 .. Len(runs)} = unique

\* The loop has ended after a solution was found and then found again.
C4_Witness ==
    /\ cmd = "queens" /\ pc = "done"
    /\ successes >= 2 /\ Len(runs) = 1

NoSharedColumnOrDiagonal(st) ==
    \A a, b \in Rows : a < b => (st[a] # st[b] /\ Abs(st[a] - st[b]) # b - a)

\* C5: every state in the result of collect_solutions has energy 0, that is no
\* two queens share a column or a diagonal, and the result holds at most
\* target states.
C5_SolutionsValid ==
    cmd = "queens" =>
        /\ \A i \in 1 .. Len(runs) :
             /\ queen_conflict_count(runs[i].state) = 0
             /\ NoSharedColumnOrDiagonal(runs[i].state)
        /\ Len(runs) <= target

\* The loop has ended with target = 2 states, one of them found by moves.
C5_Witness ==
    /\ cmd = "queens" /\ pc = "done" /\ target = 2 /\ Len(runs) = 2
    /\ \E i \in 1 .. 2 : runs[i].steps > 0

\* C6: collect_solutions runs at most max_restarts attempts, runs an attempt
\* only while fewer than target distinct solutions are held, and returns; on
\* return restarts <= max_restarts and either target solutions are held or
\* restarts = max_restarts.
C6_RestartsBounded ==
    /\ [](cmd = "queens" =>
            /\ restarts <= max_restarts
            /\ attempts_run <= max_restarts
            /\ pc \in {"single_init", "single", "returned"}
                 => Len(runs) < target
            /\ pc = "done" => (Len(runs) = target \/ restarts = max_restarts))
    /\ [][(cmd = "queens" /\ pc = "collect")
            => (pc' = "done" \/ (pc' = "single_init" /\ restarts' = restarts + 1))]_vars
    /\ [][(cmd = "queens" /\ pc = "single_init")
            => (pc' = "single" /\ attempts_run' = attempts_run + 1)]_vars

\* The loop has ended on the restart bound, short of the target.
C6_Witness ==
    /\ cmd = "queens" /\ pc = "done"
    /\ restarts = max_restarts /\ max_restarts >= 2 /\ Len(runs) < target

\* C7: every attempt (solve_single, solve) ends after at most max_steps
\* iterations, proposes no move once the tracked energy is 0, reports a step
\* count of at most max_steps, and reports 0 steps when the initial state has
\* energy 0.
C7_AttemptsBounded ==
    /\ [](/\ InSingle => step <= config.max_steps
          /\ (InSingle /\ pc = "returned" /\ result.tag = "Some")
               => (result.value.steps <= config.max_steps /\ result.value.steps = step)
          /\ InSolve => (iter <= config.max_steps /\ steps <= config.max_steps
                         /\ steps = iter)
          /\ (InSolve /\ pc = "done") => result.stats.steps = steps)
    /\ [][(cmd = "queens" /\ pc = "single" /\ energy = 0)
            => (state' = state /\ step' = step /\ pc' = "returned"
                /\ (step = 0 /\ result'.tag = "Some" => result'.value.steps = 0))]_vars
    /\ [][(cmd = "sudoku" /\ pc = "solve" /\ energy = 0)
            => (board' = board /\ steps' = steps /\ pc' = "done"
                /\ (iter = 0 => result'.stats.steps = 0))]_vars
    /\ [][(cmd = "queens" /\ pc = "single")
            => (pc' = "returned" \/ (pc' = "single" /\ step' = step + 1))]_vars
    /\ [][(cmd = "sudoku" /\ pc = "solve")
            => (pc' = "done" \/ (pc' = "solve" /\ iter' = iter + 1))]_vars

\* An attempt of either driver has returned straight from an initial state of
\* energy 0, with a positive step budget, reporting 0 steps.
C7_Witness ==
    /\ config.max_steps > 0
    /\ \/ /\ cmd = "queens" /\ pc = "returned" /\ result.tag = "Some"
          /\ result.value.steps = 0 /\ energy = 0
       \/ /\ cmd = "sudoku" /\ pc = "done" /\ holes > 0
          /\ result.stats.steps = 0 /\ energy = 0

\* C8: in sudoku::solve best_energy is at most the initial energy and the
\* tracked energy after every accepted step of the run, also in the returned
\* statistics, and best_energy never increases during the run.
C8_BestEnergyMonotone ==
    /\ [](InSolve =>
            /\ \A e \in seen_energy : best_energy <= e
            /\ pc = "done" => \A e \in seen_energy : result.stats.best_energy <= e)
    /\ [][(cmd = "sudoku" /\ pc = "solve") => best_energy' <= best_energy]_vars

\* A returned run that improved on the initial energy and then accepted a
\* swap to a higher energy.
C8_Witness ==
    /\ InSolve /\ pc = "done"
    /\ Cardinality(seen_energy) >= 2
    /\ energy > result.stats.best_energy
    /\ \E e \in seen_energy : e > energy

IsPermutation(st) == \A i, j \in Rows : i # j => st[i] # st[j]

\* C9 as stated: after any sequence of Queens moves in solve_single the state
\* is still a permutation of the columns (no two rows hold the same column).
C9_AlwaysPermutation == InSingle => IsPermutation(state)

\* C9 as amended: after any sequence of Queens moves every row holds a column
\* in range; the state is a permutation before the first move and whenever its
\* energy is 0, but an accepted move may leave two rows on the same column.
C9_InRangePermutationAtStartAndZero ==
    InSingle =>
        /\ \A row \in Rows : state[row] \in Rows
        /\ step = 0 => IsPermutation(state)
        /\ energy = 0 => IsPermutation(state)

\* An attempt that ended, after at least two moves, in a state with every
\* column in range and two queens on one column.
C9_Witness ==
    /\ InSingle /\ pc = "returned" /\ step >= 2
    /\ \A row \in Rows : state[row] \in Rows
    /\ ~IsPermutation(state)

\* C10: in collect_solutions restarts is the number of attempts run and
\* total_steps is the sum of the step counts of the successful attempts,
\* rediscoveries included; a failed attempt adds one to restarts and leaves
\* total_steps and runs unchanged.
C10_CountersAccount ==
    /\ [](cmd = "queens" =>
            /\ pc \in {"collect", "done"}
                 => (restarts = attempts_run /\ total_steps = success_steps)
            /\ pc \in {"single", "returned"} => restarts = attempts_run)
    /\ [][(cmd = "queens" /\ pc = "returned" /\ result.tag = "None")
            => (total_steps' = total_steps /\ runs' = runs /\ unique' = unique
                /\ restarts' = restarts)]_vars
    /\ [][(cmd = "queens" /\ pc = "collect" /\ pc' = "single_init")
            => restarts' = restarts + 1]_vars

\* The loop has ended after a new solution and a rediscovery that took moves,
\* both reflected in the totals.
C10_Witness ==
    /\ cmd = "queens" /\ pc = "done"
    /\ successes >= 2 /\ Len(runs) = 1
    /\ total_steps > runs[1].steps

\* C12: a puzzle generated by with_random_holes with holes = 0 has
\* count_givens = 81, and solve on it, for any max_steps, returns steps = 0,
\* best_energy = 0, the board equal to the givens and the temperature equal
\* to start_temp.
C12_NoHolesSolvedAtOnce ==
    (cmd = "sudoku" /\ holes = 0) =>
        /\ pc \in {"solve_init", "solve", "done"} => count_givens(puzzle) = 81
        /\ pc = "done" =>
             /\ result.stats.steps = 0
             /\ result.stats.best_energy = 0
             /\ result.stats.temperature = config.start_temp
             /\ \A row, col \in Idx9 :
                  /\ ~IsNone(puzzle[row][col])
                  /\ result.state[row][col] = puzzle[row][col].value

\* solve has returned for a puzzle without holes and a positive step budget.
C12_Witness ==
    /\ cmd = "sudoku" /\ holes = 0 /\ pc = "done" /\ config.max_steps > 0
    /\ count_givens(puzzle) = 81

ConflictingPairs(st) ==
    {p \in Rows \X Rows :
        /\ p[1] < p[2]
        /\ (st[p[1]] = st[p[2]] \/ Abs(st[p[1]] - st[p[2]]) = p[2] - p[1])}

\* C13: for every Queens state, column repeats allowed, queen_conflict_count
\* is the number of unordered row pairs whose queens share a column or a
\* diagonal, each pair counted once; so it is 0 exactly when no two rows
\* share a column or a diagonal.
C13_ConflictCountIsPairCount ==
    InSingle =>
        /\ queen_conflict_count(state) = Cardinality(ConflictingPairs(state))
        /\ queen_conflict_count(state) = 0 <=> NoSharedColumnOrDiagonal(state)
        /\ energy = 0 => NoSharedColumnOrDiagonal(state)

\* A state with a repeated column, one pair on a shared column and another
\* pair on a shared diagonal.
C13_Witness ==
    /\ InSingle /\ ~IsPermutation(state)
    /\ \E p, q \in ConflictingPairs(state) :
         /\ p # q
         /\ state[p[1]] = state[p[2]]
         /\ state[q[1]] # state[q[2]]
    /\ queen_conflict_count(state) >= 2

ColumnCells(col) == {<<row, col>> : row \in Idx9}

BoxCells(k) ==
    {rc \in Idx9 \X Idx9 : rc[1] \div 3 = k \div 3 /\ rc[2] \div 3 = k % 3}

ColumnsAndBoxes == {ColumnCells(col) : col \in Idx9} \cup {BoxCells(k) : k \in Idx9}

Occurrences(b, cells, digit) == Cardinality({rc \in cells : b[rc[1]][rc[2]] = digit})

\* The cells of a group that repeat a digit already counted: 9 cells minus
\* the number of distinct digits.
Surplus(b, cells) == Cardinality(cells) - Cardinality({b[rc[1]][rc[2]] : rc \in cells})

RECURSIVE SurplusSum(_, _)
SurplusSum(b, groups) ==
    IF groups = {} THEN 0
    ELSE LET g == CHOOSE x \in groups : TRUE
         IN Surplus(b, g) + SurplusSum(b, groups \ {g})

\* C14: for a board of digits 1..9 the energy is 0 exactly when every column
\* and every 3x3 box holds each digit once, and a digit that occurs k > 1
\* times in a column or box adds k - 1 (so each group adds its number of
\* cells minus its number of distinct digits).
C14_EnergyCountsSurplus ==
    InSolve =>
        /\ SudokuEnergy(board) = 0
             <=> \A g \in ColumnsAndBoxes, digit \in Digits9 : Occurrences(board, g, digit) = 1
        /\ \A g \in ColumnsAndBoxes : GroupConflicts(board, g, 1) = Surplus(board, g)
        /\ SudokuEnergy(board) = SurplusSum(board, ColumnsAndBoxes)
        /\ energy = 0
             => \A g \in ColumnsAndBoxes, digit \in Digits9 : Occurrences(board, g, digit) = 1

\* A board on which some digit occurs three times in one column or box.
C14_Witness ==
    /\ InSolve
    /\ \E g \in ColumnsAndBoxes, digit \in Digits9 : Occurrences(board, g, digit) >= 3
    /\ SudokuEnergy(board) >= 2

\* C15: an iteration that rejects its candidate leaves the state as it was
\* before the iteration and leaves the tracked energy unchanged; for Sudoku
\* best_state and best_energy are unchanged as well.
C15_RejectRestores ==
    [][/\ pc = "single" =>
            \A row, candidate \in Rows :
                QueensIteration(row, candidate, FALSE)
                    => (state' = state /\ energy' = energy)
       /\ pc = "solve" =>
            \A row \in Idx9 :
                \A idx_a, idx_b \in 0 .. (Len(row_free_positions(puzzle)[row]) - 1) :
                    SudokuIteration(row, idx_a, idx_b, FALSE)
                        => /\ board' = board
                           /\ energy' = energy
                           /\ best_state' = best_state
                           /\ best_energy' = best_energy]_vars

\* The first Queens iteration has run and the state is still an arrangement
\* of all columns, which no accepted move leaves: the candidate was rejected.
C15_Witness ==
    /\ InSingle
    /\ step = 1
    /\ cooled = 1
    /\ energy # 0
    /\ IsPermutation(state)


\* C16: in both drivers a candidate whose energy is at most the current energy
\* (delta <= 0) is committed, the state keeping the move and the tracked energy
\* becoming the new energy; an iteration that rejects had delta > 0.
C16_DownhillCommitted ==
    [][/\ pc = "single" =>
            \A row, candidate \in Rows :
                LET moved == [state EXCEPT ![row] = candidate]
                    new_energy == queen_conflict_count(moved)
                IN /\ QueensIteration(row, candidate, TRUE)
                        => (state' = moved /\ energy' = new_energy)
                   /\ QueensIteration(row, candidate, FALSE)
                        => new_energy - energy > 0
       /\ pc = "solve" =>
            \A row \in Idx9 :
                LET positions == row_free_positions(puzzle)[row]
                IN \A idx_a, idx_b \in 0 .. (Len(positions) - 1) :
                     LET swapped == SwapCells(board, row, positions[idx_a + 1],
                                              positions[idx_b + 1])
                         new_energy == SudokuEnergy(swapped)
                     IN /\ SudokuIteration(row, idx_a, idx_b, TRUE)
                             => (board' = swapped /\ energy' = new_energy)
                        /\ SudokuIteration(row, idx_a, idx_b, FALSE)
                             => new_energy - energy > 0]_vars

\* The first Sudoku swap has been committed and lowered the energy.
C16_Witness ==
    /\ InSolve
    /\ cooled = 1
    /\ steps = 1
    /\ \E e \in seen_energy : e > energy


ChangedRows == {i \in Rows : state'[i] # state[i]}

\* C17: a Queens candidate move sets one row to a column of the board other
\* than the row's current column, so an accepted move changes the state in
\* exactly one position, and every column value of the state stays on the
\* board throughout the attempt.
C17_SingleRowMoves ==
    [][/\ (cmd = "queens" /\ pc' \in {"single", "returned"})
            => \A i \in Rows : state'[i] \in Rows
       /\ pc = "single" =>
            \A row, candidate \in Rows :
                QueensIteration(row, candidate, TRUE)
                    => /\ ChangedRows = {row}
                       /\ state'[row] = candidate
                       /\ candidate # state[row]]_vars

\* The first Queens move has been accepted: one row left the initial
\* arrangement, so two rows now hold the same column.
C17_Witness ==
    /\ cmd = "queens"
    /\ pc = "single"
    /\ step = 1
    /\ ~IsPermutation(state)
    /\ \A i \in Rows : state[i] \in Rows


\* C18: in both drivers, whatever start temperature and cooling rate the
\* caller supplies, no schedule advance raises the temperature.
C18_TemperatureNeverIncreases ==
    [][cooled' = cooled + 1 => temperature' <= temperature]_vars


Max(a, b) == IF a > b THEN a ELSE b

\* The rate a driver multiplies by: the caller's cooling_rate for Queens, the
\* caller's cooling_rate brought into [0.8, 0.9999] for Sudoku.
ScheduleRate ==
    IF cmd = "queens" THEN config.cooling_rate
    ELSE Max(CoolingMin, Min(config.cooling_rate, CoolingMax))

\* C19: each schedule advance sets the temperature to the larger of the
\* previous temperature times the rate and the floor 0.25, the rate being the
\* caller's cooling_rate for Queens and that rate clamped into [0.8, 0.9999]
\* for Sudoku; after the first advance the temperature is at least 0.25.
C19_AdvanceIsFlooredProduct ==
    [][cooled' = cooled + 1 =>
          /\ temperature' = Max((temperature * ScheduleRate) \div TempScale, TempFloor)
          /\ temperature' >= TempFloor
          /\ cooled >= 1 => temperature >= TempFloor]_vars

\* Sudoku has advanced its schedule for a caller's rate above 0.9999 and the
\* temperature has gone down, as the clamped rate makes it.
C19_Witness ==
    /\ InSolve
    /\ cooled >= 1
    /\ config.cooling_rate > CoolingMax
    /\ temperature < config.start_temp
    /\ temperature >= TempFloor


SharesLine(st, i, j) == st[i] = st[j] \/ Abs(st[i] - st[j]) = Abs(i - j)

\* C20: conflict_mask marks row i exactly when queen i shares a column or a
\* diagonal with the queen of some other row; the mask is all false exactly
\* when queen_conflict_count of the state is 0; every state in the result of
\* collect_solutions has an all-false mask.
C20_MaskMarksConflictingRows ==
    cmd = "queens" =>
        /\ InSingle =>
              LET mask == conflict_mask(state)
              IN /\ \A i \in Rows :
                      mask[i] <=> \E j \in Rows \ {i} : SharesLine(state, i, j)
                 /\ (\A i \in Rows : ~mask[i]) <=> queen_conflict_count(state) = 0
        /\ \A k \in 1 .. Len(runs) :
              conflict_mask(runs[k].state) = [r \in Rows |-> FALSE]

\* One solution is held and the state of the attempt under way has a row
\* that is marked and a row that is not.
C20_Witness ==
    /\ InSingle
    /\ Len(runs) >= 1
    /\ \E i, j \in Rows : conflict_mask(state)[i] /\ ~conflict_mask(state)[j]


\* C21: in both drivers, at the start of every iteration and on return, the
\* tracked energy equals the energy function recomputed on the current state;
\* so Some is returned only with a state without conflicts, and an iteration
\* that starts on a state without conflicts takes the zero-energy exit.
C21_TrackedEnergyIsRecomputed ==
    /\ [](/\ InSingle =>
              /\ energy = queen_conflict_count(state)
              /\ result.tag = "Some"
                    => queen_conflict_count(result.value.state) = 0
          /\ InSolve => energy = SudokuEnergy(board))
    /\ [][/\ (pc = "single" /\ step < config.max_steps
                 /\ queen_conflict_count(state) = 0)
                => (pc' = "returned" /\ result'.tag = "Some")
          /\ (pc = "solve" /\ SudokuEnergy(board) = 0) => pc' = "done"]_vars

\* A Sudoku run under way whose current board, after an accepted swap to a
\* higher energy and at least two iterations, is worse than the best one.
C21_Witness ==
    /\ cmd = "sudoku"
    /\ pc = "solve"
    /\ cooled >= 2
    /\ energy > best_energy
    /\ energy = SudokuEnergy(board)


\* C22: in sudoku::solve, throughout the run and on return, best_energy is the
\* energy of best_state and the least tracked energy seen so far; the pair
\* returned is (best_state, best_energy), and a returned best_energy of 0
\* means the returned board has each digit once in every column and box, has
\* every row a permutation of 1..9 and keeps the givens.
C22_BestIsEnergyOfBestState ==
    InSolve =>
        /\ best_energy = SudokuEnergy(best_state)
        /\ best_energy \in seen_energy
        /\ \A e \in seen_energy : best_energy <= e
        /\ pc = "done" =>
              /\ result.state = best_state
              /\ result.stats.best_energy = best_energy
              /\ result.stats.best_energy = 0 =>
                    /\ \A g \in ColumnsAndBoxes, digit \in Digits9 :
                          Occurrences(result.state, g, digit) = 1
                    /\ RowsArePermutations(result.state)
                    /\ GivensKept(result.state)

\* A run returned with best_energy 0 on a puzzle whose initial filling had
\* conflicts: the solution was reached by swaps.
C22_Witness ==
    /\ cmd = "sudoku"
    /\ pc = "done"
    /\ result.stats.best_energy = 0
    /\ result.stats.steps >= 1
    /\ \E e \in seen_energy : e > 0


====
